---- MODULE Spec2Model ----
(***************************************************************************)
(* Reading-gamification rule layer of Reader_book_04: points, levels,      *)
(* streaks and achievements (src/services/audio.ts, gamificationService),  *)
(* the audio record lifecycle (audioService, AudioRecorder, AudioHistory   *)
(* in src/components/achievements/AchievementsScreen.tsx) and the reading  *)
(* assignment lifecycle (src/services/assignments.ts).                     *)
(*                                                                         *)
(* The backing services (identity, relational store, object store) are     *)
(* black boxes: a query returns what it is written to return, and every    *)
(* error branch the code has is an input of the operation that has it.     *)
(* The model follows one signed-up user on one device.                     *)
(***************************************************************************)
EXTENDS Integers, Sequences, FiniteSets, TLC

\* ------------------------------------------------------------------ bounds
MaxPoints == 150
MaxDay == 2
MaxCount == 2
MaxRecords == 1
MaxAssignments == 2
MaxSounds == 2
MaxPending == 2

\* auth events waiting for the onAuthStateChange listener
MaxEvents == 2

\* ------------------------------------------------------- program constants
\* Math.floor(newPoints / 100) + 1
PointsPerLevel == 100
\* points_earned added to a ledger row by every updateStreak call
StreakPoints == 10

VARIABLES
    authed,          \* supabase.auth.getUser() yields a user
    profileIdIsUser, \* schema: profiles.id carries the auth user's id
    today,           \* new Date().toISOString().split('T')[0], as a day number
    profile,         \* the user's profiles row
    streaks,         \* reading_streaks rows of the user, per streak_date
    userAch,         \* number of user_achievements rows per achievement
    records,         \* audio_records rows
    storage,         \* object paths in the audio-files bucket
    nextId,          \* next timestamp-derived file name
    hist,            \* what the last gamification calls did (observation only)
    rec,             \* AudioRecorder component state and the captured file
    saveObs,         \* what the last validateAndSave did (observation only)
    assignments,     \* reading_assignments rows: status per assignment id
    player,          \* AudioHistory component state and the loaded sounds
    delObs,          \* what the last deleteRecord did (observation only)
    lastCall,        \* the last observed service call: arguments, tables
                     \* before and after, returned value (observation only)
    auth,            \* AuthProvider state and its calls in flight
    streakCalls      \* updateStreak calls in flight, each at one of its awaits

dbvars == <<authed, profileIdIsUser, today, profile, streaks, userAch,
            records, storage, nextId>>

\* the screens' state, untouched by direct service calls
uivars == <<rec, saveObs>>

\* the rows of the assignment service
asgvars == <<assignments>>

\* the recording-history screen
playvars == <<player, delObs>>

\* the observed service call
callvars == <<lastCall>>

\* the auth context and the service calls in flight
ctxvars == <<auth, streakCalls>>

Days == 1..MaxDay

AssignIds == 1..MaxAssignments

Max(a, b) == IF a >= b THEN a ELSE b
Min(a, b) == IF a <= b THEN a ELSE b

\* ------------------------------------------------------------ the database
NoProfile ==
    [exists |-> FALSE, points |-> 0, level |-> 0, diamonds |-> 0,
     current_streak |-> 0, longest_streak |-> 0, last_activity |-> 0]

\* the row inserted by getStudentProgress
DefaultProfile ==
    [exists |-> TRUE, points |-> 0, level |-> 1, diamonds |-> 0,
     current_streak |-> 0, longest_streak |-> 0, last_activity |-> 0]

\* the achievements table, in the order the query returns it
AchOrder == <<"first_recording", "points_50", "streak_2", "perfect">>
AchIds == {AchOrder[i] : i \in 1..Len(AchOrder)}

Catalog ==
    [a \in AchIds |->
        CASE a = "first_recording" ->
                [requirement_type |-> "total_recordings", requirement_value |-> 1,
                 points_reward |-> 60, diamonds_reward |-> 1]
          [] a = "points_50" ->
                [requirement_type |-> "points", requirement_value |-> 50,
                 points_reward |-> 45, diamonds_reward |-> 0]
          [] a = "streak_2" ->
                [requirement_type |-> "streak", requirement_value |-> 2,
                 points_reward |-> 0, diamonds_reward |-> 0]
          [] OTHER ->
                [requirement_type |-> "perfect_week", requirement_value |-> 0,
                 points_reward |-> 10, diamonds_reward |-> 2]]

Db ==
    [authed |-> authed, idIsUser |-> profileIdIsUser, today |-> today,
     profile |-> profile, streaks |-> streaks, userAch |-> userAch,
     records |-> records, storage |-> storage, nextId |-> nextId]

\* the result of one service call: the database after it, what it returned,
\* whether it threw, and the service requests it issued, in order
Result(db, ret, threw, log) ==
    [db |-> db, ret |-> ret, threw |-> threw, log |-> log]

NoRet == [none |-> TRUE]

\* --------------------------------------------------- gamificationService
Level(points) == (points \div PointsPerLevel) + 1

\* a fallback that reports a finished level
FallbackProgressNoNext ==
    [points |-> 0, diamonds |-> 0, currentStreak |-> 0,
     longestStreak |-> 0, level |-> 1, totalRecordings |-> 0,
     nextLevelPoints |-> 0]

\* the values returned when the default profile cannot be created
FallbackProgress ==
    [points |-> 0, diamonds |-> 0, currentStreak |-> 0,
     longestStreak |-> 0, level |-> 1, totalRecordings |-> 0,
     nextLevelPoints |-> 100]

\* getStudentProgress; createErr: the insert of the default profile fails
GetStudentProgress(db, createErr) ==
    IF ~db.authed THEN Result(db, NoRet, TRUE, <<>>)
    ELSE IF ~db.profile.exists /\ createErr THEN
        Result(db, FallbackProgress, FALSE, <<"profile_insert">>)
    ELSE
        LET p == IF db.profile.exists THEN db.profile ELSE DefaultProfile
            currentLevel == IF p.level = 0 THEN 1 ELSE p.level
            pointsToNext == currentLevel * 100 - p.points
        IN Result([db EXCEPT !.profile = p],
                  [points |-> p.points, diamonds |-> p.diamonds,
                   currentStreak |-> p.current_streak,
                   longestStreak |-> p.longest_streak,
                   level |-> currentLevel,
                   totalRecordings |-> Cardinality(db.records),
                   nextLevelPoints |-> Max(0, pointsToNext)],
                  FALSE,
                  IF db.profile.exists THEN <<>> ELSE <<"profile_insert">>)

\* a filter that forgets the user's rows: every achievement is scanned
AvailableUnfiltered(db) == AchOrder

\* achievements the user has no user_achievements row for
Available(db) == SelectSeq(AchOrder, LAMBDA a : db.userAch[a] = 0)

\* a switch that wants the stat above the required value
EarnedAbove(a, stats) ==
    LET ach == Catalog[a] IN
    CASE ach.requirement_type = "total_recordings" ->
            stats.totalRecordings > ach.requirement_value
      [] ach.requirement_type = "streak" ->
            stats.currentStreak > ach.requirement_value
      [] ach.requirement_type = "points" ->
            stats.points > ach.requirement_value
      [] OTHER -> FALSE

\* the switch on requirement_type
Earned(a, stats) ==
    LET ach == Catalog[a] IN
    CASE ach.requirement_type = "total_recordings" ->
            stats.totalRecordings >= ach.requirement_value
      [] ach.requirement_type = "streak" ->
            stats.currentStreak >= ach.requirement_value
      [] ach.requirement_type = "points" ->
            stats.points >= ach.requirement_value
      [] OTHER -> FALSE

\* the reward update, addressed by profiles.id = user.id
AddReward(db, a) ==
    LET ach == Catalog[a] IN
    IF ach.points_reward > 0 \/ ach.diamonds_reward > 0 THEN
        IF db.profile.exists /\ db.idIsUser THEN
            [db EXCEPT !.profile.points = @ + ach.points_reward,
                       !.profile.diamonds = @ + ach.diamonds_reward]
        ELSE db
    ELSE db

\* an iteration that adds the reward but writes no user_achievements row
AwardOneNoRow(db, a) == AddReward(db, a)

\* one iteration of the loop over the available achievements
AwardOne(db, a) ==
    AddReward([db EXCEPT !.userAch[a] = @ + 1], a)

RECURSIVE AwardLoop(_, _, _, _)
\* acc: the database and the newAchievements list so far
AwardLoop(avail, i, stats, acc) ==
    IF i > Len(avail) THEN acc
    ELSE IF Earned(avail[i], stats) THEN
        AwardLoop(avail, i + 1, stats,
                  [db |-> AwardOne(acc.db, avail[i]),
                   new |-> Append(acc.new, avail[i])])
    ELSE AwardLoop(avail, i + 1, stats, acc)

\* checkAndAwardAchievements; achErr: the achievements query fails
CheckAndAwardAchievements(db, createErr, achErr) ==
    IF ~db.authed THEN Result(db, NoRet, TRUE, <<>>)
    ELSE
        LET sp == GetStudentProgress(db, createErr) IN
        IF achErr THEN Result(sp.db, NoRet, TRUE, <<"evaluate">>)
        ELSE
            LET out == AwardLoop(Available(sp.db), 1, sp.ret,
                                 [db |-> sp.db, new |-> <<>>])
            IN Result(out.db, out.new, FALSE, <<"evaluate">>)

\* awardPoints; updateErr: the profile update fails
AwardPoints(db, points, updateErr, createErr, achErr) ==
    IF ~db.authed THEN Result(db, NoRet, TRUE, <<>>)
    ELSE IF ~db.profile.exists THEN
        Result(db, [newPoints |-> points, newLevel |-> 1], FALSE, <<"award">>)
    ELSE
        LET newPoints == db.profile.points + points
            newLevel == Level(newPoints)
            ret == [newPoints |-> newPoints, newLevel |-> newLevel]
        IN IF updateErr THEN Result(db, ret, FALSE, <<"award">>)
           ELSE
             LET db1 == [db EXCEPT !.profile.points = newPoints,
                                   !.profile.level = newLevel]
                 chk == CheckAndAwardAchievements(db1, createErr, achErr)
             IN Result(chk.db, ret, chk.threw, <<"award">> \o chk.log)

\* the ledger row .single() finds for today, if exactly one exists
ExistingStreak(db) ==
    IF Len(db.streaks[db.today]) = 1 THEN db.streaks[db.today] ELSE <<>>

\* a streak rule that starts over at 1 after a day without activity
BumpStreakStartingOver(db) ==
    IF db.profile.exists THEN
        LET newCurrentStreak ==
                IF db.profile.last_activity + 1 < db.today THEN 1
                ELSE db.profile.current_streak + 1
            newLongestStreak == Max(db.profile.longest_streak, newCurrentStreak)
        IN [db EXCEPT !.profile.current_streak = newCurrentStreak,
                      !.profile.longest_streak = newLongestStreak,
                      !.profile.last_activity = db.today]
    ELSE db

\* the profile part of updateStreak, after a ledger row was created
BumpStreak(db) ==
    IF db.profile.exists THEN
        LET newCurrentStreak == db.profile.current_streak + 1
            newLongestStreak == Max(db.profile.longest_streak, newCurrentStreak)
        IN [db EXCEPT !.profile.current_streak = newCurrentStreak,
                      !.profile.longest_streak = newLongestStreak,
                      !.profile.last_activity = db.today]
    ELSE db

\* updateStreak; streakErr: the insert of the ledger row fails
UpdateStreak(db, streakErr) ==
    IF ~db.authed THEN Result(db, NoRet, TRUE, <<>>)
    ELSE IF ExistingStreak(db) # <<>> THEN
        LET row == ExistingStreak(db)[1] IN
        Result([db EXCEPT !.streaks[db.today] =
                    <<[recordings_count |-> row.recordings_count + 1,
                       points_earned |-> row.points_earned + StreakPoints]>>],
               NoRet, FALSE, <<"streak">>)
    ELSE IF streakErr THEN Result(db, NoRet, FALSE, <<"streak">>)
    ELSE
        LET db1 == [db EXCEPT !.streaks[db.today] =
                        Append(@, [recordings_count |-> 1,
                                   points_earned |-> StreakPoints])]
        IN Result(BumpStreak(db1), NoRet, FALSE, <<"streak">>)

\* ------------------------------------------------------------ audioService
\* the row saveAudioRecord inserts
NewRecord(id, filePath, duration, pointsEarned) ==
    [id |-> id, file_path |-> filePath, duration |-> duration,
     points_earned |-> pointsEarned, assignment_id |-> 0,
     parent_rating |-> 0, parent_feedback |-> "null", reading_quality |-> "null"]

\* uploadAudioFile; uploadErr: the storage upload fails
UploadAudioFile(db, uploadErr) ==
    IF ~db.authed \/ uploadErr THEN Result(db, NoRet, TRUE, <<"upload">>)
    ELSE Result([db EXCEPT !.storage = @ \cup {db.nextId}, !.nextId = @ + 1],
                [path |-> db.nextId], FALSE, <<"upload">>)

\* saveAudioRecord; insertErr: the insert fails or returns no row.  The
\* generated row id is represented by the row's unique file name.
SaveAudioRecord(db, filePath, duration, pointsEarned, insertErr) ==
    IF ~db.authed \/ insertErr THEN Result(db, NoRet, TRUE, <<"insert">>)
    ELSE Result([db EXCEPT !.records = @ \cup
                     {NewRecord(filePath, filePath, duration, pointsEarned)}],
                [id |-> filePath], FALSE, <<"insert">>)

\* ------------------------------------------------------------ AudioRecorder
\* titles the user types: empty, blank, and a real one
Titles == {"", " ", "Chapter 1"}

\* title.trim()
Trim(t) == IF t = " " THEN "" ELSE t

\* recording durations (seconds) the interval timer is observed at
DurationSamples == {0, 30, 60, 90, 600}

\* useState initial values; fileSize is the size of the file at uri
\* the values a validateAndSave call in flight works on
NoCapture == [title |-> "", duration |-> 0, fileSize |-> 0]

InitRec ==
    [recording |-> FALSE, isRecording |-> FALSE, isPaused |-> FALSE,
     duration |-> 0, uri |-> FALSE, fileSize |-> 0, title |-> "",
     titleError |-> FALSE, isSaving |-> FALSE, captured |-> NoCapture]

\* Math.ceil(duration / 60)
CeilMinutes(duration) == (duration + 59) \div 60

\* a bonus that rounds the minutes down
PointsForDurationFloor(duration) == 10 + Min((duration \div 60) * 2, 20)

\* totalPoints = basePoints + durationBonus
PointsForDuration(duration) == 10 + Min(CeilMinutes(duration) * 2, 20)

\* discardRecording
Discarded(r) ==
    [r EXCEPT !.isRecording = FALSE, !.isPaused = FALSE, !.duration = 0,
              !.uri = FALSE, !.title = "", !.titleError = FALSE]

\* a totalPoints the catch block could read
TotalPointsInComponentScope == TRUE

\* totalPoints is declared with const inside the try block (line 1154); the
\* catch block's message (line 1219) names it outside that block, so building
\* the message raises a ReferenceError before showAlert is called
TotalPointsInCatchScope == FALSE

\* points at which the save's awaited calls can throw
FailPoints == {"none", "fetch", "upload", "insert", "award", "evaluate", "verify"}

NoSave ==
    [ran |-> FALSE, duration |-> 0, log |-> <<>>, uploaded |-> FALSE,
     inserted |-> FALSE, rowId |-> 0, points |-> 0, stored |-> 0,
     awardArg |-> 0,
     completed |-> FALSE, announced |-> 0, alert |-> "none",
     reset |-> FALSE, notified |-> FALSE,
     attempt |-> "none", errorShown |-> FALSE, kept |-> FALSE,
     dbChanged |-> FALSE]

\* points_earned of the audio_records row with the given id
StoredPoints(db, id) == (CHOOSE r \in db.records : r.id = id).points_earned

\* the awaited calls of the try block of validateAndSave, in program order
SaveSteps ==
    <<"fetch", "upload", "insert", "award", "streak", "evaluate", "verify">>

\* one awaited call of the try block; s: the tables, what has been observed
\* so far, the uploaded path and the newly earned achievements; in: the
\* values captured when Save was pressed and the faults of this run
SaveStep(name, s, in) ==
    LET totalPoints == PointsForDuration(in.c.duration)
        after(r) == [s EXCEPT !.db = r.db, !.threw = r.threw,
                              !.obs.log = @ \o r.log]
    IN
    CASE name = "fetch" ->
           [s EXCEPT !.threw = in.failAt = "fetch" \/ in.c.fileSize = 0]
      [] name = "upload" ->
           LET r == UploadAudioFile(s.db, in.failAt = "upload")
           IN IF r.threw THEN after(r)
              ELSE [after(r) EXCEPT !.path = r.ret.path,
                                    !.obs.uploaded = TRUE]
      [] name = "insert" ->
           LET r == SaveAudioRecord(s.db, s.path, in.c.duration, totalPoints,
                                    in.failAt = "insert")
           IN IF r.threw THEN [after(r) EXCEPT !.obs.points = totalPoints]
              ELSE [after(r) EXCEPT
                      !.obs.points = totalPoints,
                      !.obs.inserted = TRUE,
                      !.obs.rowId = r.ret.id,
                      !.obs.stored = StoredPoints(r.db, r.ret.id)]
      [] name = "award" ->
           LET r == AwardPoints(s.db, totalPoints, in.updateErr, in.createErr,
                                in.failAt = "award")
           IN [after(r) EXCEPT !.obs.awardArg = totalPoints]
      [] name = "streak" -> after(UpdateStreak(s.db, in.streakErr))
      [] name = "evaluate" ->
           LET r == CheckAndAwardAchievements(s.db, in.createErr,
                                              in.failAt = "evaluate")
           IN IF r.threw THEN after(r)
              ELSE [after(r) EXCEPT !.earned = Len(r.ret)]
      [] name = "verify" ->
           IF in.failAt = "verify"
           THEN [s EXCEPT !.threw = TRUE, !.obs.log = @ \o <<"verify">>]
           ELSE [s EXCEPT !.obs.log = @ \o <<"verify">>,
                          !.obs.completed = TRUE,
                          !.obs.announced = s.earned]

\* the statements of the try block run in order until one throws
RECURSIVE RunSteps(_, _, _)
RunSteps(s, steps, in) ==
    IF steps = <<>> \/ s.threw THEN s
    ELSE CHOOSE out \in {RunSteps(s1, Tail(steps), in) :
                            s1 \in {SaveStep(Head(steps), s, in)}} : TRUE

\* the try block of validateAndSave, on the values captured when Save was
\* pressed; failAt names the awaited call that throws, the other inputs are
\* the errors the services report without throwing
SaveFlow(db, c, failAt, updateErr, streakErr, createErr) ==
    LET s0 == [db |-> db, threw |-> FALSE, path |-> 0, earned |-> 0,
               obs |-> [NoSave EXCEPT !.ran = TRUE, !.duration = c.duration]]
        in == [c |-> c, failAt |-> failAt, updateErr |-> updateErr,
               streakErr |-> streakErr, createErr |-> createErr]
        out == RunSteps(s0, SaveSteps, in)
    IN [db |-> out.db, obs |-> out.obs]

\* ------------------------------------------------------------- AudioHistory
\* useState initial values; sounds: the Audio.Sound objects that are loaded,
\* each with the record it plays; 0 stands for null; calls: the playAudio
\* invocations that are suspended at an await, in the order they started
InitPlayer ==
    [list |-> {}, playback |-> 0, playingRecordId |-> 0, sounds |-> {},
     nextSound |-> 1, calls |-> <<>>]

NoDelete ==
    [ran |-> FALSE, wasPlaying |-> FALSE, loadedAtRemove |-> FALSE,
     playingAtRemove |-> FALSE, storageFailed |-> FALSE, dbFailed |-> FALSE,
     threw |-> FALSE, rowLeft |-> FALSE, objectLeft |-> FALSE,
     alert |-> "none"]

\* sound.unloadAsync()
Unloaded(sounds, h) == {snd \in sounds : snd.h # h}

\* sound.stopAsync(), pauseAsync() and playAsync()
SetPlaying(sounds, h, playing) ==
    {IF snd.h = h THEN [snd EXCEPT !.playing = playing] ELSE snd : snd \in sounds}

\* stopAudio; stopErr, unloadErr: stopAsync, unloadAsync reject
StopAudio(p, stopErr, unloadErr) ==
    IF p.playback = 0 THEN p
    ELSE IF stopErr THEN p
    ELSE IF unloadErr THEN
        [p EXCEPT !.sounds = SetPlaying(p.sounds, p.playback, FALSE)]
    ELSE [p EXCEPT !.sounds = Unloaded(p.sounds, p.playback),
                   !.playback = 0, !.playingRecordId = 0]

\* a deletion that gives up when the stored object cannot be removed
DeleteAudioRecordStrict(db, id, filePath, storageErr, dbErr) ==
    IF storageErr \/ dbErr THEN Result(db, NoRet, TRUE, <<"remove">>)
    ELSE Result([db EXCEPT !.storage = @ \ {filePath},
                           !.records = {r \in @ : r.id # id}],
                NoRet, FALSE, <<"remove", "delete">>)

\* deleteAudioRecord; storageErr, dbErr: the object removal, the row delete
\* report an error
DeleteAudioRecord(db, id, filePath, storageErr, dbErr) ==
    LET db1 == IF storageErr THEN db
               ELSE [db EXCEPT !.storage = @ \ {filePath}]
    IN IF dbErr THEN Result(db1, NoRet, TRUE, <<"remove", "delete">>)
       ELSE Result([db1 EXCEPT !.records = {r \in @ : r.id # id}],
                   NoRet, FALSE, <<"remove", "delete">>)

\* the ids getUserAudioRecords returns
RecordIds(recs) == {r.id : r \in recs}

\* ------------------------------------------------------------- observation
NoCall == [op |-> "none"]

NoStats == [points |-> 0, currentStreak |-> 0, totalRecordings |-> 0]

NoCheck == [new |-> <<>>, rows |-> 0, pts |-> 0, dia |-> 0, stats |-> NoStats]

InitHist ==
    [calledToday |-> FALSE, dayStartStreak |-> 0,
     checks |-> 0, prev |-> NoCheck, last |-> NoCheck]

RowCount(ua) == Cardinality({a \in AchIds : ua[a] > 0})

\* what a checkAndAwardAchievements run did, from the states around it
CheckObs(before, stats, r) ==
    [new |-> IF r.threw THEN <<>> ELSE r.ret,
     stats |-> [points |-> stats.points, currentStreak |-> stats.currentStreak,
                totalRecordings |-> stats.totalRecordings],
     rows |-> RowCount(r.db.userAch) - RowCount(before.userAch),
     pts |-> r.db.profile.points - before.profile.points,
     dia |-> r.db.profile.diamonds - before.profile.diamonds]

\* any operation other than checkAndAwardAchievements ends a series of runs
OtherOp ==
    [hist EXCEPT !.checks = 0, !.prev = NoCheck, !.last = NoCheck]

CurrentStreak == IF profile.exists THEN profile.current_streak ELSE 0

Commit(db) ==
    /\ authed' = db.authed
    /\ profileIdIsUser' = db.idIsUser
    /\ today' = db.today
    /\ profile' = db.profile
    /\ streaks' = db.streaks
    /\ userAch' = db.userAch
    /\ records' = db.records
    /\ storage' = db.storage
    /\ nextId' = db.nextId

\* the model's bounds on stored counters
InBounds(db) ==
    /\ db.profile.points <= MaxPoints
    /\ \A d \in Days : \A i \in 1..Len(db.streaks[d]) :
           db.streaks[d][i].recordings_count <= MaxCount
    /\ db.nextId <= MaxRecords + 1

\* the profile insert of getStudentProgress is attempted, and can fail, only
\* when the profile row is missing
CreateFaults == IF profile.exists THEN {FALSE} ELSE BOOLEAN

\* point deltas callers pass to awardPoints
AwardDeltas == {0, 30, 100}

\* ------------------------------------------------------------ AuthProvider
\* the state useState starts with, the initializer and no call in flight
InitAuth ==
    [user |-> "null", session |-> FALSE, loading |-> TRUE,
     initialized |-> FALSE, initializing |-> TRUE, call |-> "none",
     timer |-> FALSE, timerSession |-> FALSE, events |-> <<>>]

\* ------------------------------------------------- updateStreak in flight
\* the two callers whose updateStreak calls may overlap
StreakCallers == {1, 2}

NoStreakCalls == [c \in StreakCallers |-> [pc |-> "idle"]]

\* ---------------------------------------------------------------- actions
Init ==
    /\ authed = TRUE
    /\ profileIdIsUser \in BOOLEAN
    /\ today = 1
    /\ profile \in {NoProfile, DefaultProfile}
    /\ streaks = [d \in Days |-> <<>>]
    /\ userAch = [a \in AchIds |-> 0]
    /\ records = {}
    /\ storage = {}
    /\ nextId = 1
    /\ hist = InitHist
    /\ rec = InitRec
    /\ saveObs = NoSave
    /\ assignments = [a \in AssignIds |-> "absent"]
    /\ player = InitPlayer
    /\ delObs = NoDelete
    /\ lastCall = NoCall
    /\ auth = InitAuth
    /\ streakCalls = NoStreakCalls

DoGetStudentProgress ==
    \E createErr \in CreateFaults :
        LET r == GetStudentProgress(Db, createErr) IN
        /\ Commit(r.db)
        /\ hist' = OtherOp
        /\ UNCHANGED <<uivars, asgvars, playvars, callvars, ctxvars>>

\* the profile update can fail only when the profile was found, and the
\* achievements query only when that update went through
DoAwardPoints ==
    \E points \in AwardDeltas,
       updateErr \in (IF profile.exists THEN BOOLEAN ELSE {FALSE}) :
    \E achErr \in (IF profile.exists /\ ~updateErr THEN BOOLEAN ELSE {FALSE}),
       createErr \in CreateFaults :
        LET r == AwardPoints(Db, points, updateErr, createErr, achErr) IN
        /\ InBounds(r.db)
        /\ Commit(r.db)
        /\ hist' = OtherOp
        /\ UNCHANGED <<uivars, asgvars, playvars, callvars, ctxvars>>

DoUpdateStreak ==
    \E streakErr \in BOOLEAN :
        LET r == UpdateStreak(Db, streakErr) IN
        /\ InBounds(r.db)
        /\ Commit(r.db)
        /\ hist' = IF r.threw THEN OtherOp
                   ELSE [OtherOp EXCEPT
                            !.calledToday = TRUE,
                            !.dayStartStreak =
                                IF hist.calledToday THEN @ ELSE CurrentStreak]
        /\ UNCHANGED <<uivars, asgvars, playvars, callvars, ctxvars>>

DoCheckAndAwardAchievements ==
    \E createErr \in CreateFaults, achErr \in BOOLEAN :
        LET r == CheckAndAwardAchievements(Db, createErr, achErr) IN
        /\ InBounds(r.db)
        /\ Commit(r.db)
        /\ hist' = IF r.threw THEN OtherOp
                   ELSE [hist EXCEPT !.checks = Min(hist.checks + 1, 2),
                        !.prev = hist.last,
                        !.last = CheckObs(Db, GetStudentProgress(Db, createErr).ret, r)]
        /\ UNCHANGED <<uivars, asgvars, playvars, callvars, ctxvars>>

\* a recording is stored: uploadAudioFile, then saveAudioRecord
DoUploadAndSave ==
    \E uploadErr, insertErr \in BOOLEAN :
        LET up == UploadAudioFile(Db, uploadErr)
            r == IF up.threw THEN up
                 ELSE SaveAudioRecord(up.db, up.ret.path, 90, 14, insertErr)
        IN /\ InBounds(r.db)
           /\ Commit(r.db)
           /\ hist' = OtherOp
           /\ UNCHANGED <<uivars, asgvars, playvars, callvars, ctxvars>>

\* midnight passes
NextDay ==
    /\ today < MaxDay
    /\ today' = today + 1
    /\ hist' = [OtherOp EXCEPT !.calledToday = FALSE,
                                      !.dayStartStreak = 0]
    /\ UNCHANGED <<authed, profileIdIsUser, profile, streaks, userAch,
                   records, storage, nextId>>
    /\ UNCHANGED <<uivars, asgvars, playvars, callvars, ctxvars>>

vars == <<authed, profileIdIsUser, today, profile, streaks, userAch,
          records, storage, nextId, hist, rec, saveObs, assignments,
          player, delObs, lastCall, auth, streakCalls>>

Next ==
    \/ DoGetStudentProgress
    \/ DoAwardPoints
    \/ DoUpdateStreak
    \/ DoCheckAndAwardAchievements
    \/ DoUploadAndSave
    \/ NextDay

Spec == Init /\ [][Next]_vars

\* --------------------------------------------------- AudioRecorder actions
dbUnchanged ==
    UNCHANGED <<authed, profileIdIsUser, today, profile, streaks, userAch,
                records, storage, nextId, hist, asgvars, playvars, callvars, ctxvars>>

\* the microphone button; initOk, startOk: initializeRecording and
\* startAsync succeed
StartRecording ==
    /\ ~rec.isRecording /\ ~rec.uri
    /\ \E initOk, startOk \in BOOLEAN :
         rec' = IF ~initOk THEN rec
                ELSE IF ~startOk THEN [rec EXCEPT !.recording = TRUE]
                ELSE [rec EXCEPT !.recording = TRUE, !.isRecording = TRUE,
                                 !.isPaused = FALSE, !.duration = 0,
                                 !.uri = FALSE]
    /\ saveObs' = NoSave
    /\ dbUnchanged

\* the pause button; ok: pauseAsync succeeds
PauseRecording ==
    /\ rec.isRecording /\ ~rec.isPaused
    /\ \E ok \in BOOLEAN :
         rec' = IF rec.recording /\ ok THEN [rec EXCEPT !.isPaused = TRUE]
                ELSE rec
    /\ saveObs' = NoSave
    /\ dbUnchanged

\* the play button; ok: startAsync succeeds
ResumeRecording ==
    /\ rec.isRecording /\ rec.isPaused
    /\ \E ok \in BOOLEAN :
         rec' = IF rec.recording /\ ok THEN [rec EXCEPT !.isPaused = FALSE]
                ELSE rec
    /\ saveObs' = NoSave
    /\ dbUnchanged

\* the stop button; ok: stopAndUnloadAsync succeeds; size: bytes captured
StopRecording ==
    /\ rec.isRecording
    /\ \E ok \in BOOLEAN, size \in {0, 1} :
         rec' = IF rec.recording /\ ok
                THEN [rec EXCEPT !.isRecording = FALSE, !.isPaused = FALSE,
                                 !.uri = TRUE, !.fileSize = size,
                                 !.recording = FALSE]
                ELSE rec
    /\ saveObs' = NoSave
    /\ dbUnchanged

\* the interval timer, while recording and not paused
Tick ==
    /\ rec.isRecording /\ ~rec.isPaused
    /\ \E d \in DurationSamples :
         /\ d > rec.duration
         /\ \A e \in DurationSamples : ~(rec.duration < e /\ e < d)
         /\ rec' = [rec EXCEPT !.duration = d]
    /\ saveObs' = NoSave
    /\ dbUnchanged

\* the delete button
DiscardRecording ==
    /\ rec.uri
    /\ rec' = Discarded(rec)
    /\ saveObs' = NoSave
    /\ dbUnchanged

\* typing into the title field
SetTitle ==
    /\ rec.uri /\ ~rec.isSaving
    /\ \E t \in Titles : t # rec.title /\ rec' = [rec EXCEPT !.title = t]
    /\ saveObs' = NoSave
    /\ dbUnchanged

\* the outcomes of the calls after the insert are inputs only of a save that
\* gets that far
LaterFaults(c, failAt) ==
    IF c.fileSize = 0 \/ failAt \in {"fetch", "upload", "insert"}
    THEN {FALSE} ELSE BOOLEAN

\* the Save button: validateAndSave, from the validation to the end of
\* finally; the values it works on are those of the render it was pressed in
ValidateAndSave ==
    /\ rec.uri /\ ~rec.isSaving
    /\ IF Trim(rec.title) = "" THEN
           /\ rec' = [rec EXCEPT !.titleError = TRUE]
           /\ saveObs' = [NoSave EXCEPT !.attempt = "blank_title",
                                        !.errorShown = TRUE,
                                        !.kept = rec.uri]
           /\ dbUnchanged
       ELSE
           \E failAt \in FailPoints :
           \E updateErr, streakErr \in
                  LaterFaults([fileSize |-> rec.fileSize], failAt),
              createErr \in CreateFaults \cap
                  LaterFaults([fileSize |-> rec.fileSize], failAt) :
             LET c == [title |-> Trim(rec.title), duration |-> rec.duration,
                       fileSize |-> rec.fileSize]
                 out == SaveFlow(Db, c, failAt, updateErr, streakErr, createErr)
                 shown == out.obs.completed \/ TotalPointsInCatchScope
                 r1 == IF shown THEN Discarded(rec) ELSE rec
             IN /\ InBounds(out.db)
                /\ Commit(out.db)
                /\ rec' = [r1 EXCEPT !.titleError = FALSE, !.isSaving = FALSE]
                /\ saveObs' = [out.obs EXCEPT
                                 !.alert = IF out.obs.completed THEN "saved"
                                           ELSE IF shown THEN "saved_fallback"
                                           ELSE "none",
                                 !.reset = shown,
                                 !.notified = shown,
                                 !.attempt = IF rec.fileSize = 0
                                             THEN "empty_file" ELSE "valid",
                                 !.errorShown = FALSE,
                                 !.kept = r1.uri,
                                 !.dbChanged = out.db # Db]
                /\ hist' = OtherOp
                /\ UNCHANGED <<asgvars, playvars, callvars, ctxvars>>

\* the Save button, up to the first await: validation and setIsSaving(true)
SavePressed ==
    /\ rec.uri /\ ~rec.isSaving
    /\ rec' = IF Trim(rec.title) = "" THEN [rec EXCEPT !.titleError = TRUE]
              ELSE [rec EXCEPT !.titleError = FALSE, !.isSaving = TRUE,
                               !.captured =
                                   [title |-> Trim(rec.title),
                                    duration |-> rec.duration,
                                    fileSize |-> rec.fileSize]]
    /\ saveObs' = NoSave
    /\ dbUnchanged

\* the rest of validateAndSave, from the try block to the end of finally, on
\* the values captured when Save was pressed
SaveSettled ==
    /\ rec.isSaving
    /\ \E failAt \in FailPoints :
       \E updateErr, streakErr \in LaterFaults(rec.captured, failAt),
          createErr \in CreateFaults \cap LaterFaults(rec.captured, failAt) :
         \E out \in {SaveFlow(Db, rec.captured, failAt, updateErr, streakErr,
                              createErr)} :
           LET shown == out.obs.completed \/ TotalPointsInCatchScope
               r1 == IF shown THEN Discarded(rec) ELSE rec
           IN /\ InBounds(out.db)
              /\ Commit(out.db)
              /\ rec' = [r1 EXCEPT !.isSaving = FALSE, !.captured = NoCapture]
              /\ saveObs' = NoSave
              /\ hist' = OtherOp
              /\ UNCHANGED <<asgvars, playvars, callvars, ctxvars>>

\* the recorder with a save that takes time
NextRecorder ==
    \/ StartRecording
    \/ PauseRecording
    \/ ResumeRecording
    \/ StopRecording
    \/ Tick
    \/ DiscardRecording
    \/ SetTitle
    \/ SavePressed
    \/ SaveSettled

SpecRecorder == Init /\ [][NextRecorder]_vars

NextSave ==
    \/ StartRecording
    \/ PauseRecording
    \/ ResumeRecording
    \/ StopRecording
    \/ Tick
    \/ DiscardRecording
    \/ SetTitle
    \/ ValidateAndSave

SpecSave == Init /\ [][NextSave]_vars

\* -------------------------------------------------------- assignmentService
\* values a parent passes to reviewAssignment
Ratings == {1, 5}
Feedbacks == {"null", "Well read"}
Qualities == {"null", "excellent"}

\* the status written by completeAssignment, whatever the row held
CompleteStatus(status) == "completed"

\* the status written by reviewAssignment, whatever the row held
ReviewStatus(status) == "reviewed"

\* the audio_records row .single() finds for the assignment, if exactly one
LinkedRecording(recs, assignmentId) ==
    LET linked == {r \in recs : r.assignment_id = assignmentId} IN
    IF Cardinality(linked) = 1 THEN linked ELSE {}

\* audio_records after update(fields).eq('id', recordingId)
LinkRecord(recs, recordingId, assignmentId) ==
    {IF r.id = recordingId THEN [r EXCEPT !.assignment_id = assignmentId]
     ELSE r : r \in recs}

\* audio_records after the review fields are written to the linked row; an
\* optional argument that was not passed ("null" here, undefined in the
\* call) is not part of the request body, so its column keeps its value
AnnotateRecord(recs, recordingId, rating, feedback, quality) ==
    {IF r.id = recordingId
     THEN [r EXCEPT !.parent_rating = rating,
                    !.parent_feedback = IF feedback = "null" THEN @
                                        ELSE feedback,
                    !.reading_quality = IF quality = "null" THEN @
                                        ELSE quality]
     ELSE r : r \in recs}

\* createAssignment: the parent's insert; new rows start as pending
CreateAssignment ==
    /\ \E a \in AssignIds, insertErr \in BOOLEAN :
         /\ assignments[a] = "absent"
         /\ assignments' = IF insertErr THEN assignments
                           ELSE [assignments EXCEPT ![a] = "pending"]
    /\ UNCHANGED <<dbvars, hist, uivars, playvars, callvars, ctxvars>>

\* completeAssignment on the two tables it writes; updateErr: the status
\* update fails or finds no row
CompleteAssignmentRows(asg, recs, a, recordingId, updateErr) ==
    IF updateErr \/ asg[a] = "absent" THEN
        [assignments |-> asg, records |-> recs, threw |-> TRUE]
    ELSE
        [assignments |-> [asg EXCEPT ![a] = CompleteStatus(asg[a])],
         records |-> LinkRecord(recs, recordingId, a),
         threw |-> FALSE]

\* reviewAssignment on the two tables it writes; updateErr: the status
\* update fails or finds no row
ReviewAssignmentRows(asg, recs, a, rating, feedback, quality, updateErr) ==
    IF updateErr \/ asg[a] = "absent" THEN
        [assignments |-> asg, records |-> recs, threw |-> TRUE]
    ELSE
        [assignments |-> [asg EXCEPT ![a] = ReviewStatus(asg[a])],
         records |->
            LET linked == LinkedRecording(recs, a) IN
            IF linked = {} THEN recs
            ELSE AnnotateRecord(recs, (CHOOSE r \in linked : TRUE).id,
                                rating, feedback, quality),
         threw |-> FALSE]

\* completeAssignment, called by the child after a recording
CompleteAssignment ==
    /\ \E a \in AssignIds, recordingId \in 1..MaxRecords, updateErr \in BOOLEAN :
         \E out \in {CompleteAssignmentRows(assignments, records, a,
                                            recordingId, updateErr)} :
             /\ assignments' = out.assignments
             /\ records' = out.records
    /\ UNCHANGED <<authed, profileIdIsUser, today, profile, streaks, userAch,
                   storage, nextId, hist, uivars, playvars, callvars, ctxvars>>

\* reviewAssignment, called by the parent
ReviewAssignment ==
    /\ \E a \in AssignIds, rating \in Ratings, feedback \in Feedbacks,
          quality \in Qualities, updateErr \in BOOLEAN :
         \E out \in {ReviewAssignmentRows(assignments, records, a, rating,
                                          feedback, quality, updateErr)} :
             /\ assignments' = out.assignments
             /\ records' = out.records
    /\ UNCHANGED <<authed, profileIdIsUser, today, profile, streaks, userAch,
                   storage, nextId, hist, uivars, playvars, callvars, ctxvars>>

NextAssign ==
    \/ DoUploadAndSave
    \/ CreateAssignment
    \/ CompleteAssignment
    \/ ReviewAssignment

SpecAssign == Init /\ [][NextAssign]_vars

\* ---------------------------------------------------- AudioHistory actions
restUnchanged ==
    UNCHANGED <<authed, profileIdIsUser, today, profile, streaks, userAch,
                records, storage, nextId, hist, uivars, asgvars, callvars, ctxvars>>

\* loadRecords, on mount and on refresh; loadErr: the query fails
LoadRecords ==
    /\ \E loadErr \in BOOLEAN :
         player' = IF loadErr THEN player
                   ELSE [player EXCEPT !.list = RecordIds(records)]
    /\ delObs' = NoDelete
    /\ restUnchanged

\* the play button of a record that is not the playing one.  The catch block
\* unloads the playback of the render the button was pressed in; cleanupErr:
\* that unload rejects too.
PlayAudio ==
    /\ player.nextSound <= MaxSounds
    /\ \E id \in player.list, cleanupErr \in BOOLEAN,
          failAt \in {"none", "unload", "url", "create", "play"} :
         /\ id # player.playingRecordId
         /\ LET old == player.playback
                p1 == IF old # 0
                      THEN [player EXCEPT !.sounds = Unloaded(@, old),
                                          !.playback = 0, !.playingRecordId = 0]
                      ELSE player
                h == player.nextSound
                p2 == [p1 EXCEPT !.sounds = @ \cup {[h |-> h, rec |-> id,
                                                     playing |-> FALSE]},
                                 !.nextSound = @ + 1,
                                 !.playback = h, !.playingRecordId = id]
                p3 == [p2 EXCEPT !.sounds = SetPlaying(@, h, TRUE)]
                caught(p) ==
                    [p EXCEPT !.sounds = IF cleanupErr THEN @
                                         ELSE Unloaded(@, old),
                              !.playback = 0, !.playingRecordId = 0]
            IN player' =
                 CASE failAt = "unload" /\ old # 0 -> caught(player)
                   [] failAt = "url" -> caught(p1)
                   [] failAt = "create" -> caught(p1)
                   [] failAt = "play" -> caught(p2)
                   [] OTHER -> p3
    /\ delObs' = NoDelete
    /\ restUnchanged

\* the pause button; ok: pauseAsync resolves
PauseAudio ==
    /\ player.playingRecordId # 0
    /\ \E snd \in player.sounds : snd.h = player.playback /\ snd.playing
    /\ \E ok \in BOOLEAN :
         player' = IF ok THEN [player EXCEPT
                                  !.sounds = SetPlaying(@, player.playback, FALSE)]
                   ELSE player
    /\ delObs' = NoDelete
    /\ restUnchanged

\* the resume button; ok: playAsync resolves
ResumeAudio ==
    /\ player.playingRecordId # 0
    /\ \E snd \in player.sounds : snd.h = player.playback /\ ~snd.playing
    /\ \E ok \in BOOLEAN :
         player' = IF ok THEN [player EXCEPT
                                  !.sounds = SetPlaying(@, player.playback, TRUE)]
                   ELSE player
    /\ delObs' = NoDelete
    /\ restUnchanged

\* the stop button of the playing record
DoStopAudio ==
    /\ player.playingRecordId # 0
    /\ \E stopErr, unloadErr \in BOOLEAN :
         player' = StopAudio(player, stopErr, unloadErr)
    /\ delObs' = NoDelete
    /\ restUnchanged

\* the status listener's didJustFinish branch
PlaybackFinished ==
    /\ player.playingRecordId # 0
    /\ \E snd \in player.sounds : snd.h = player.playback /\ snd.playing
    /\ player' = [player EXCEPT
                     !.sounds = SetPlaying(@, player.playback, FALSE),
                     !.playingRecordId = 0]
    /\ delObs' = NoDelete
    /\ restUnchanged

\* the Delete menu item: deleteRecord, with the list refresh it starts
DeleteRecord ==
    \E id \in player.list, stopErr, unloadErr, storageErr, dbErr,
       loadErr \in BOOLEAN :
      LET wasPlaying == player.playingRecordId = id
          p1 == IF wasPlaying THEN StopAudio(player, stopErr, unloadErr)
                ELSE player
          \* file_path of the listed record; row ids are file names
          r == DeleteAudioRecord(Db, id, id, storageErr, dbErr)
      IN /\ Commit(r.db)
         /\ player' = IF r.threw \/ loadErr THEN p1
                      ELSE [p1 EXCEPT !.list = RecordIds(r.db.records)]
         /\ delObs' =
              [ran |-> TRUE, wasPlaying |-> wasPlaying,
               loadedAtRemove |-> \E snd \in p1.sounds : snd.rec = id,
               playingAtRemove |->
                   \E snd \in p1.sounds : snd.rec = id /\ snd.playing,
               storageFailed |-> storageErr, dbFailed |-> dbErr,
               threw |-> r.threw,
               rowLeft |-> id \in RecordIds(r.db.records),
               objectLeft |-> id \in r.db.storage,
               alert |-> IF r.threw THEN "Delete Error" ELSE "Deleted"]
         /\ UNCHANGED <<hist, uivars, asgvars, callvars, ctxvars>>

NextHistory ==
    \/ DoUploadAndSave
    \/ LoadRecords
    \/ PlayAudio
    \/ PauseAudio
    \/ ResumeAudio
    \/ DoStopAudio
    \/ PlaybackFinished
    \/ DeleteRecord

\* the history screen of a user whose profile exists; none of its handlers
\* reads or writes the profile
InitHistory ==
    /\ Init
    /\ profile = DefaultProfile
    /\ profileIdIsUser

SpecHistory == InitHistory /\ [][NextHistory]_vars

\* ------------------------------------------------ observed awardPoints calls
\* everything but the tables and the observed call
callUnchanged == UNCHANGED <<hist, uivars, asgvars, playvars, ctxvars>>

\* one awardPoints call, with what it found, stored and returned
CallAwardPoints ==
    \E points \in AwardDeltas, updateErr, achErr \in BOOLEAN,
       createErr \in CreateFaults :
        LET r == AwardPoints(Db, points, updateErr, createErr, achErr) IN
        /\ InBounds(r.db)
        /\ Commit(r.db)
        /\ lastCall' =
             [op |-> "awardPoints",
              found |-> profile.exists,
              updated |-> profile.exists /\ ~updateErr,
              threw |-> r.threw,
              P |-> profile.points,
              d |-> points,
              newPoints |-> IF r.threw THEN 0 ELSE r.ret.newPoints,
              newLevel |-> IF r.threw THEN 0 ELSE r.ret.newLevel,
              storedPoints |-> r.db.profile.points,
              storedLevel |-> r.db.profile.level,
              tablesSame |-> r.db = Db]
        /\ callUnchanged

\* a caller awards a and then b, no service error occurring; one: what a
\* single awardPoints(a + b) does to the same tables
CallAwardPointsTwice ==
    \E a, b \in AwardDeltas :
      \E r1 \in {AwardPoints(Db, a, FALSE, FALSE, FALSE)} :
        \E r2 \in {AwardPoints(r1.db, b, FALSE, FALSE, FALSE)},
           one \in {AwardPoints(Db, a + b, FALSE, FALSE, FALSE)} :
          /\ InBounds(r2.db)
          /\ Commit(r2.db)
          /\ lastCall' =
               [op |-> "awardPointsTwice",
                found |-> profile.exists,
                a |-> a, b |-> b,
                twoPoints |-> r2.db.profile.points,
                twoLevel |-> r2.db.profile.level,
                onePoints |-> one.db.profile.points,
                oneLevel |-> one.db.profile.level]
          /\ callUnchanged

NextAward ==
    \/ CallAwardPoints
    \/ CallAwardPointsTwice

SpecAward == Init /\ [][NextAward]_vars

\* ------------------------------------------------- a user with a streak
\* streak the user built on the days before day 1
PriorStreak == 2

\* the profile of a user whose last activity was on the day before day 1
\* (last_activity 0) and the one before
StreakProfile ==
    [DefaultProfile EXCEPT !.current_streak = PriorStreak,
                           !.longest_streak = PriorStreak]

\* day 1 starts with no profile yet, or with a streak from the days before
InitStreak ==
    /\ authed = TRUE
    /\ profileIdIsUser \in BOOLEAN
    /\ today = 1
    /\ profile \in {NoProfile, StreakProfile}
    /\ streaks = [d \in Days |-> <<>>]
    /\ userAch = [a \in AchIds |-> 0]
    /\ records = {}
    /\ storage = {}
    /\ nextId = 1
    /\ hist = InitHist
    /\ rec = InitRec
    /\ saveObs = NoSave
    /\ assignments = [a \in AssignIds |-> "absent"]
    /\ player = InitPlayer
    /\ delObs = NoDelete
    /\ lastCall = NoCall
    /\ auth = InitAuth
    /\ streakCalls = NoStreakCalls

\* the operations that write the profile, and midnight
NextStreak ==
    \/ DoGetStudentProgress
    \/ DoAwardPoints
    \/ DoUpdateStreak
    \/ DoCheckAndAwardAchievements
    \/ NextDay

SpecStreak == InitStreak /\ [][NextStreak]_vars

\* ------------------------------------- observed checkAndAwardAchievements
\* one checkAndAwardAchievements call, with the stats it read, the
\* achievements that had no row, what it returned and the tables around it
CallCheckAndAwardAchievements ==
    \E createErr \in CreateFaults, achErr \in BOOLEAN :
      \E sp \in {GetStudentProgress(Db, createErr)},
         r \in {CheckAndAwardAchievements(Db, createErr, achErr)} :
        /\ InBounds(r.db)
        /\ Commit(r.db)
        /\ lastCall' =
             [op |-> "checkAndAwardAchievements",
              threw |-> r.threw,
              stats |-> [points |-> sp.ret.points,
                         currentStreak |-> sp.ret.currentStreak,
                         totalRecordings |-> sp.ret.totalRecordings],
              unearned |-> {a \in AchIds : userAch[a] = 0},
              new |-> IF r.threw THEN <<>> ELSE r.ret,
              pointsBefore |-> profile.points,
              diamondsBefore |-> profile.diamonds,
              pointsAfter |-> r.db.profile.points,
              diamondsAfter |-> r.db.profile.diamonds,
              rowsAfter |-> r.db.userAch]
        /\ callUnchanged

NextEvaluate ==
    \/ DoGetStudentProgress
    \/ DoAwardPoints
    \/ DoUpdateStreak
    \/ DoUploadAndSave
    \/ CallCheckAndAwardAchievements

\* evaluation passes of one day, for a user with or without earlier activity
SpecEvaluate == InitStreak /\ [][NextEvaluate]_vars

\* ----------------------------------------- observed getStudentProgress
\* one getStudentProgress call, with the tables it found and what it
\* returned
CallGetStudentProgress ==
    \E createErr \in CreateFaults :
      \E r \in {GetStudentProgress(Db, createErr)} :
        /\ Commit(r.db)
        /\ lastCall' =
             [op |-> "getStudentProgress",
              existed |-> profile.exists,
              recordings |-> Cardinality(records),
              createFailed |-> ~profile.exists /\ createErr,
              threw |-> r.threw,
              ret |-> r.ret,
              profileAfter |-> r.db.profile]
        /\ callUnchanged

NextProgress ==
    \/ CallGetStudentProgress
    \/ DoAwardPoints
    \/ DoUploadAndSave

SpecProgress == Init /\ [][NextProgress]_vars

\* ------------------------------------------- playAudio, await by await
RemoveAt(seq, i) == SubSeq(seq, 1, i - 1) \o SubSeq(seq, i + 1, Len(seq))

\* the catch block of playAudio: old is the playback of the render the
\* button was pressed in
PlayCaught(p, old, cleanupErr) ==
    [p EXCEPT !.sounds = IF cleanupErr THEN @ ELSE Unloaded(@, old),
              !.playback = 0, !.playingRecordId = 0]

\* the play button is pressed: playAudio runs up to the awaits that fetch
\* the URL and create the sound; unloadErr: unloading the old sound rejects
PlayPressed ==
    /\ Len(player.calls) < MaxPending
    /\ \E id \in player.list, unloadErr, cleanupErr \in BOOLEAN :
         /\ id # player.playingRecordId
         /\ LET old == player.playback IN
            player' =
              IF old # 0 /\ unloadErr THEN PlayCaught(player, old, cleanupErr)
              ELSE [player EXCEPT
                      !.sounds = Unloaded(@, old),
                      !.playback = 0,
                      !.playingRecordId = IF old # 0 THEN 0 ELSE @,
                      !.calls = Append(@, [id |-> id, old |-> old,
                                           stage |-> "creating", h |-> 0])]
    /\ delObs' = NoDelete
    /\ restUnchanged

\* a suspended call resumes after getAudioFileUrl and createAsync; ok: both
\* succeeded and the sound is loaded
PlayCreated ==
    /\ \E i \in 1..Len(player.calls), ok, cleanupErr \in BOOLEAN :
         LET c == player.calls[i]
             h == player.nextSound
         IN /\ c.stage = "creating"
            /\ ok => h <= MaxSounds
            /\ player' =
                 IF ok THEN
                     [player EXCEPT
                        !.sounds = @ \cup {[h |-> h, rec |-> c.id,
                                            playing |-> FALSE]},
                        !.nextSound = @ + 1,
                        !.playback = h,
                        !.playingRecordId = c.id,
                        !.calls[i] = [c EXCEPT !.stage = "starting", !.h = h]]
                 ELSE [PlayCaught(player, c.old, cleanupErr) EXCEPT
                        !.calls = RemoveAt(@, i)]
    /\ delObs' = NoDelete
    /\ restUnchanged

\* a suspended call resumes after sound.playAsync(); ok: it resolved
PlayStarted ==
    /\ \E i \in 1..Len(player.calls), ok, cleanupErr \in BOOLEAN :
         LET c == player.calls[i] IN
         /\ c.stage = "starting"
         /\ player' =
              IF ok THEN
                  [player EXCEPT !.sounds = SetPlaying(@, c.h, TRUE),
                                 !.calls = RemoveAt(@, i)]
              ELSE [PlayCaught(player, c.old, cleanupErr) EXCEPT
                     !.calls = RemoveAt(@, i)]
    /\ delObs' = NoDelete
    /\ restUnchanged

NextPlayback ==
    \/ DoUploadAndSave
    \/ LoadRecords
    \/ PlayPressed
    \/ PlayCreated
    \/ PlayStarted
    \/ DoStopAudio
    \/ PlaybackFinished

SpecPlayback == Init /\ [][NextPlayback]_vars

\* ------------------------------------------------------- AuthProvider
authRest ==
    UNCHANGED <<profileIdIsUser, today, profile, streaks, userAch, records,
                storage, nextId, hist, uivars, asgvars, playvars, callvars,
                streakCalls>>

\* fetchUserProfile returns the profile row, or null when it is missing or
\* the query fails
FetchedProfiles == IF profile.exists THEN {"profile", "null"} ELSE {"null"}

\* what the identity service answers: an error, a user, or neither
AuthOutcomes == {"error", "user", "nouser"}

\* setState({ user: null, session: null, loading: false, initialized: true })
SignedOutState(a) ==
    [a EXCEPT !.user = "null", !.session = FALSE, !.loading = FALSE,
              !.initialized = TRUE]

\* the identity service notifies the listener
Notified(a, event) == [a EXCEPT !.events = Append(@, event)]

\* initializeAuth, run once on mount; sessionErr: getSession reports an error
InitializeAuth ==
    /\ auth.initializing
    /\ \E sessionErr \in BOOLEAN, fetched \in FetchedProfiles :
         LET session == authed /\ ~sessionErr IN
         auth' = IF session
                 THEN [auth EXCEPT !.user = fetched, !.session = TRUE,
                                   !.loading = FALSE, !.initialized = TRUE,
                                   !.initializing = FALSE]
                 ELSE [SignedOutState(auth) EXCEPT !.initializing = FALSE]
    /\ UNCHANGED authed
    /\ authRest

\* the form's Sign In button: signIn up to its await
SignIn ==
    /\ auth.initialized /\ ~auth.loading /\ auth.user = "null"
    /\ auth.call = "none"
    /\ auth' = [auth EXCEPT !.loading = TRUE, !.call = "signIn"]
    /\ UNCHANGED authed
    /\ authRest

\* authService.signIn has returned or thrown
SignInReturned ==
    /\ auth.call = "signIn"
    /\ \E outcome \in AuthOutcomes, fetched \in FetchedProfiles :
         CASE outcome = "error" ->
                /\ auth' = [auth EXCEPT !.loading = FALSE, !.call = "none"]
                /\ UNCHANGED authed
           [] outcome = "user" ->
                /\ Len(auth.events) < MaxEvents
                /\ auth' = Notified([auth EXCEPT !.user = fetched,
                                                 !.session = TRUE,
                                                 !.loading = FALSE,
                                                 !.call = "none"],
                                    "SIGNED_IN")
                /\ authed' = TRUE
           [] OTHER ->
                /\ auth' = [auth EXCEPT !.call = "none"]
                /\ UNCHANGED authed
    /\ authRest

\* the form's Create Account button: signUp up to its await
SignUp ==
    /\ auth.initialized /\ ~auth.loading /\ auth.user = "null"
    /\ auth.call = "none" /\ ~auth.timer
    /\ auth' = [auth EXCEPT !.loading = TRUE, !.call = "signUp"]
    /\ UNCHANGED authed
    /\ authRest

\* authService.signUp has returned or thrown; withSession: the new account
\* needs no e-mail confirmation and is signed in at once
SignUpReturned ==
    /\ auth.call = "signUp"
    /\ \E outcome \in AuthOutcomes, withSession \in BOOLEAN :
         CASE outcome = "error" ->
                /\ auth' = [auth EXCEPT !.loading = FALSE, !.call = "none"]
                /\ UNCHANGED authed
           [] outcome = "user" ->
                /\ Len(auth.events) < MaxEvents
                /\ auth' =
                     LET a == [auth EXCEPT !.call = "none", !.timer = TRUE,
                                           !.timerSession = withSession]
                     IN IF withSession THEN Notified(a, "SIGNED_IN") ELSE a
                /\ authed' = (authed \/ withSession)
           [] OTHER ->
                /\ auth' = [auth EXCEPT !.call = "none"]
                /\ UNCHANGED authed
    /\ authRest

\* the one-second timer of signUp fires
SignUpTimerFired ==
    /\ auth.timer
    /\ \E fetched \in FetchedProfiles :
         auth' = [auth EXCEPT !.user = fetched,
                              !.session = auth.timerSession,
                              !.loading = FALSE, !.timer = FALSE,
                              !.timerSession = FALSE]
    /\ UNCHANGED authed
    /\ authRest

\* the profile screen's Sign Out button: signOut up to its await
SignOut ==
    /\ auth.initialized /\ ~auth.loading /\ auth.user = "profile"
    /\ auth.call = "none"
    /\ auth' = [auth EXCEPT !.loading = TRUE, !.call = "signOut"]
    /\ UNCHANGED authed
    /\ authRest

\* authService.signOut has returned or thrown
SignOutReturned ==
    /\ auth.call = "signOut"
    /\ \E signOutErr \in BOOLEAN :
         IF signOutErr THEN
             /\ auth' = [auth EXCEPT !.loading = FALSE, !.call = "none"]
             /\ UNCHANGED authed
         ELSE
             /\ Len(auth.events) < MaxEvents
             /\ auth' = Notified([SignedOutState(auth) EXCEPT !.call = "none"],
                                 "SIGNED_OUT")
             /\ authed' = FALSE
    /\ authRest

\* the session token is refreshed in the background
TokenRefreshed ==
    /\ authed
    /\ Len(auth.events) < MaxEvents
    /\ auth' = Notified(auth, "TOKEN_REFRESHED")
    /\ UNCHANGED authed
    /\ authRest

\* the onAuthStateChange listener handles the oldest event
AuthStateChanged ==
    /\ auth.events # <<>>
    /\ \E fetched \in FetchedProfiles :
         LET event == Head(auth.events)
             a == [auth EXCEPT !.events = Tail(@)]
         IN auth' =
              CASE event = "SIGNED_IN" ->
                     [a EXCEPT !.user = fetched, !.session = TRUE,
                               !.loading = FALSE, !.initialized = TRUE]
                [] event = "SIGNED_OUT" -> SignedOutState(a)
                [] OTHER -> [a EXCEPT !.session = TRUE]
    /\ UNCHANGED authed
    /\ authRest

NextAuth ==
    \/ InitializeAuth
    \/ SignIn
    \/ SignInReturned
    \/ SignUp
    \/ SignUpReturned
    \/ SignUpTimerFired
    \/ SignOut
    \/ SignOutReturned
    \/ TokenRefreshed
    \/ AuthStateChanged

\* every awaited call returns, every timer fires and every event is handled;
\* what the user presses and when a token is refreshed is left open
AuthFairness ==
    /\ WF_vars(InitializeAuth)
    /\ WF_vars(SignInReturned)
    /\ WF_vars(SignUpReturned)
    /\ WF_vars(SignUpTimerFired)
    /\ WF_vars(SignOutReturned)
    /\ WF_vars(AuthStateChanged)

SpecAuth == Init /\ [][NextAuth]_vars /\ AuthFairness

\* ------------------------------------------------ observed reviews
\* one reviewAssignment call, with its arguments and the rows around it
CallReviewAssignment ==
    /\ \E a \in AssignIds, rating \in Ratings, feedback \in Feedbacks,
          quality \in Qualities, updateErr \in BOOLEAN :
         \E out \in {ReviewAssignmentRows(assignments, records, a, rating,
                                          feedback, quality, updateErr)} :
             /\ assignments' = out.assignments
             /\ records' = out.records
             /\ lastCall' =
                  [op |-> "reviewAssignment", threw |-> out.threw,
                   assignmentId |-> a, rating |-> rating,
                   feedback |-> feedback, quality |-> quality,
                   status |-> out.assignments[a],
                   recordsBefore |-> records, recordsAfter |-> out.records]
    /\ UNCHANGED <<authed, profileIdIsUser, today, profile, streaks, userAch,
                   storage, nextId, hist, uivars, playvars, ctxvars>>

NextReview ==
    \/ DoUploadAndSave
    \/ CreateAssignment
    \/ CompleteAssignment
    \/ CallReviewAssignment

SpecReview == Init /\ [][NextReview]_vars

\* ------------------------------------------- updateStreak, await by await
streakRest ==
    UNCHANGED <<authed, profileIdIsUser, today, userAch, records, storage,
                nextId, uivars, asgvars, playvars, callvars, auth>>

\* the call has passed one of its awaits
StreakAt(c, call) == streakCalls' = [streakCalls EXCEPT ![c] = call]

StreakDone(c) == StreakAt(c, [pc |-> "idle"])

\* updateStreak is called: getUser, and today's date is taken
StreakBegin(c) ==
    /\ streakCalls[c].pc = "idle"
    /\ IF authed THEN StreakAt(c, [pc |-> "select", day |-> today])
       ELSE StreakDone(c)
    /\ hist' = IF ~authed THEN OtherOp
               ELSE [OtherOp EXCEPT
                        !.calledToday = TRUE,
                        !.dayStartStreak =
                            IF hist.calledToday THEN @ ELSE CurrentStreak]
    /\ UNCHANGED <<profile, streaks>>
    /\ streakRest

\* the ledger select for that day comes back
StreakSelected(c) ==
    /\ streakCalls[c].pc = "select"
    /\ LET day == streakCalls[c].day
           existingStreak == IF Len(streaks[day]) = 1 THEN streaks[day]
                             ELSE <<>>
       IN IF existingStreak # <<>>
          THEN StreakAt(c, [pc |-> "updateRow", day |-> day,
                            row |-> existingStreak[1]])
          ELSE StreakAt(c, [pc |-> "insert", day |-> day])
    /\ UNCHANGED <<profile, streaks, hist>>
    /\ streakRest

\* the ledger row that was found is updated from the values read
StreakRowUpdated(c) ==
    /\ streakCalls[c].pc = "updateRow"
    /\ LET day == streakCalls[c].day
           row == streakCalls[c].row
       IN /\ row.recordings_count < MaxCount
          /\ streaks' =
               [streaks EXCEPT ![day][1] =
                   [recordings_count |-> row.recordings_count + 1,
                    points_earned |-> row.points_earned + StreakPoints]]
    /\ StreakDone(c)
    /\ UNCHANGED <<profile, hist>>
    /\ streakRest

\* the ledger insert comes back; streakErr: it reports an error
StreakInserted(c) ==
    /\ streakCalls[c].pc = "insert"
    /\ \E streakErr \in BOOLEAN :
         LET day == streakCalls[c].day IN
         IF streakErr THEN
             /\ StreakDone(c)
             /\ UNCHANGED streaks
         ELSE
             /\ Len(streaks[day]) < MaxCount
             /\ streaks' = [streaks EXCEPT ![day] =
                               Append(@, [recordings_count |-> 1,
                                          points_earned |-> StreakPoints])]
             /\ StreakAt(c, [pc |-> "readProfile", day |-> day])
    /\ UNCHANGED <<profile, hist>>
    /\ streakRest

\* the profile select comes back
StreakProfileRead(c) ==
    /\ streakCalls[c].pc = "readProfile"
    /\ IF profile.exists
       THEN StreakAt(c, [pc |-> "writeProfile", day |-> streakCalls[c].day,
                         current_streak |-> profile.current_streak,
                         longest_streak |-> profile.longest_streak])
       ELSE StreakDone(c)
    /\ UNCHANGED <<profile, streaks, hist>>
    /\ streakRest

\* the profile update is applied, computed from the values read
StreakProfileWritten(c) ==
    /\ streakCalls[c].pc = "writeProfile"
    /\ LET newCurrentStreak == streakCalls[c].current_streak + 1
           newLongestStreak ==
               Max(streakCalls[c].longest_streak, newCurrentStreak)
       IN profile' = IF profile.exists
                     THEN [profile EXCEPT
                             !.current_streak = newCurrentStreak,
                             !.longest_streak = newLongestStreak,
                             !.last_activity = streakCalls[c].day]
                     ELSE profile
    /\ StreakDone(c)
    /\ UNCHANGED <<streaks, hist>>
    /\ streakRest

\* two callers' updateStreak calls, interleaved at their awaits
NextInterleaved ==
    \E c \in StreakCallers :
        \/ StreakBegin(c)
        \/ StreakSelected(c)
        \/ StreakRowUpdated(c)
        \/ StreakInserted(c)
        \/ StreakProfileRead(c)
        \/ StreakProfileWritten(c)

SpecInterleaved == InitStreak /\ [][NextInterleaved]_vars

\* ------------------------------------------ rule operations without a user
\* the operations that read or write the rule tables
RuleOperations ==
    {"awardPoints", "updateStreak", "checkAndAwardAchievements",
     "getStudentProgress", "saveAudioRecord", "uploadAudioFile",
     "deleteAudioRecord", "completeAssignment", "reviewAssignment"}

\* one call of a rule operation on the tables; e1, e2: its first and second
\* service request report an error
RuleCall(op, db, asg, id, a, e1, e2, createErr) ==
    LET svc(r) == [db |-> r.db, assignments |-> asg, threw |-> r.threw]
        rows(o) == [db |-> [db EXCEPT !.records = o.records],
                    assignments |-> o.assignments, threw |-> o.threw]
    IN CASE op = "awardPoints" -> svc(AwardPoints(db, 30, e1, createErr, e2))
         [] op = "updateStreak" -> svc(UpdateStreak(db, e1))
         [] op = "checkAndAwardAchievements" ->
                svc(CheckAndAwardAchievements(db, createErr, e1))
         [] op = "getStudentProgress" -> svc(GetStudentProgress(db, createErr))
         [] op = "saveAudioRecord" -> svc(SaveAudioRecord(db, id, 90, 14, e1))
         [] op = "uploadAudioFile" -> svc(UploadAudioFile(db, e1))
         [] op = "deleteAudioRecord" -> svc(DeleteAudioRecord(db, id, id, e1, e2))
         [] op = "completeAssignment" ->
                rows(CompleteAssignmentRows(asg, db.records, a, id, e1))
         [] OTHER ->
                rows(ReviewAssignmentRows(asg, db.records, a, 5, "Well read",
                                          "excellent", e1))

\* a rule operation is called after the session has ended
CallRuleOperation ==
    /\ ~authed
    /\ \E op \in RuleOperations, id \in 1..MaxRecords, a \in AssignIds,
       e1, e2 \in BOOLEAN, createErr \in CreateFaults :
      \E out \in {RuleCall(op, Db, assignments, id, a, e1, e2, createErr)} :
        /\ InBounds(out.db)
        /\ Commit(out.db)
        /\ assignments' = out.assignments
        /\ lastCall' =
             [op |-> "rule", name |-> op, user |-> authed,
              threw |-> out.threw,
              changed |-> out.db # Db \/ out.assignments # assignments]
        /\ UNCHANGED <<hist, uivars, playvars, ctxvars>>

\* authService.signOut succeeds: the session is gone
SignedOut ==
    /\ authed
    /\ authed' = FALSE
    /\ UNCHANGED <<profileIdIsUser, today, profile, streaks, userAch, records,
                   storage, nextId, hist, uivars, asgvars, playvars, callvars,
                   ctxvars>>

\* authService.signIn succeeds: a session exists
SignedIn ==
    /\ ~authed
    /\ authed' = TRUE
    /\ UNCHANGED <<profileIdIsUser, today, profile, streaks, userAch, records,
                   storage, nextId, hist, uivars, asgvars, playvars, callvars,
                   ctxvars>>

NextAnon ==
    \/ DoUploadAndSave
    \/ CreateAssignment
    \/ SignedOut
    \/ SignedIn
    \/ CallRuleOperation

SpecAnon == Init /\ [][NextAnon]_vars

\* ------------------------------------------------ gamification properties
TypeOK ==
    /\ authed \in BOOLEAN
    /\ profile.points \in 0..MaxPoints
    /\ today \in Days
    /\ nextId \in 1..(MaxRecords + 1)

\* C1: in every reachable state the stored level of an existing profile is
\* floor(points / 100) + 1
LevelInvariant ==
    profile.exists => profile.level = (profile.points \div 100) + 1

\* C2: on a day with updateStreak calls and a ledger entry, the profile's
\* current_streak is exactly 1 higher than before the day's first call
StreakOncePerDay ==
    (hist.calledToday /\ Len(streaks[today]) = 1 /\ profile.exists)
        => profile.current_streak = hist.dayStartStreak + 1

NothingNew(obs) ==
    obs.new = <<>> /\ obs.rows = 0 /\ obs.pts = 0 /\ obs.dia = 0

AtMostOneRowNeverRemoved ==
    [][\A a \in AchIds :
          /\ userAch[a] <= 1
          /\ userAch'[a] <= 1
          /\ userAch'[a] >= userAch[a]]_vars

\* an earned achievement was scanned again by a later run and kept one row
WitnessOneRow ==
    /\ hist.checks = 2
    /\ hist.prev.rows > 0
    /\ hist.last.rows = 0
    /\ \E a \in AchIds : userAch[a] = 1

\* ------------------------------------------------------- save properties
\* the least whole number of minutes that covers d seconds
WholeMinutes(d) ==
    CHOOSE n \in 0..d : 60 * n >= d /\ (n = 0 \/ 60 * (n - 1) < d)

\* C5: the points_earned stored by a save of a recording of d seconds is
\* 10 + min(ceil(d / 60) * 2, 20), between 10 and 30 (10 for d = 0, 12 for
\* d = 30 and d = 60, 14 for d = 90, 30 for d = 600), and awardPoints is
\* called with the same value
PointsEarnedFormula ==
    saveObs.inserted =>
        LET d == saveObs.duration
            bonus == Min(WholeMinutes(d) * 2, 20)
        IN /\ saveObs.stored = 10 + bonus
           /\ saveObs.stored \in 10..30
           /\ (d = 0 => saveObs.stored = 10)
           /\ (d \in {30, 60} => saveObs.stored = 12)
           /\ (d = 90 => saveObs.stored = 14)
           /\ (d = 600 => saveObs.stored = 30)
           /\ saveObs.awardArg = saveObs.stored

\* a ten-minute recording was saved with the capped bonus
WitnessPointsEarned ==
    /\ saveObs.inserted
    /\ saveObs.duration = 600
    /\ saveObs.stored = 30
    /\ saveObs.awardArg = 30

StepRank(step) ==
    CASE step = "upload" -> 1
      [] step = "insert" -> 2
      [] step = "award" -> 3
      [] step = "streak" -> 4
      [] step = "evaluate" -> 5
      [] OTHER -> 6

\* C6: the service calls of a save are issued in the order upload, insert,
\* point award, streak update, achievement evaluation; no evaluation is
\* issued before the streak update
SaveStepOrder ==
    \A i, j \in 1..Len(saveObs.log) :
        i < j => StepRank(saveObs.log[i]) <= StepRank(saveObs.log[j])

\* C7: a save whose upload and insert succeeded and whose later step threw
\* still shows the saved message, resets the form, calls onRecordingSaved
\* and keeps the audio_records row
SavedDespiteLaterFailure ==
    (saveObs.ran /\ saveObs.inserted /\ ~saveObs.completed) =>
        /\ saveObs.alert # "none"
        /\ saveObs.reset
        /\ saveObs.notified
        /\ \E r \in records : r.id = saveObs.rowId

\* ------------------------------------------------- assignment properties
\* C8: every step leaves each assignment's status unchanged or moves it one
\* step forward: pending to completed, or completed to reviewed
ForwardOnlyStatus ==
    [][\A a \in AssignIds :
          \/ assignments'[a] = assignments[a]
          \/ <<assignments[a], assignments'[a]>> \in
                {<<"absent", "pending">>, <<"pending", "completed">>,
                 <<"completed", "reviewed">>}]_vars

\* ---------------------------------------------------- history properties
\* C9: when deleteRecord removes the stored object of the record that was
\* playing, that record's sound is neither playing nor loaded any more
PlaybackStoppedBeforeRemove ==
    (delObs.ran /\ delObs.wasPlaying) =>
        ~delObs.playingAtRemove /\ ~delObs.loadedAtRemove

\* C10: a failed object removal alone leaves the deletion successful (row
\* gone, deleted message); a failed row delete makes the call fail and the
\* user sees the delete error, not the deleted message
DeleteFailurePolicy ==
    delObs.ran =>
        /\ (delObs.storageFailed /\ ~delObs.dbFailed) =>
               (~delObs.threw /\ ~delObs.rowLeft /\ delObs.alert = "Deleted")
        /\ delObs.dbFailed =>
               (delObs.threw /\ delObs.alert = "Delete Error")

\* the object could not be removed, the row was deleted and the user was
\* told so
WitnessDeleteFailurePolicy ==
    /\ delObs.ran
    /\ delObs.storageFailed
    /\ ~delObs.dbFailed
    /\ delObs.objectLeft
    /\ ~delObs.rowLeft
    /\ delObs.alert = "Deleted"

\* ------------------------------------------------------ award properties
\* C11: an awardPoints(d) call that found the profile with P points, updated
\* it and returned leaves points = P + d and level = floor((P + d) / 100) + 1,
\* at least 1, and returns these two values
AwardPointsResult ==
    (lastCall.op = "awardPoints" /\ lastCall.updated /\ ~lastCall.threw) =>
        /\ lastCall.storedPoints = lastCall.P + lastCall.d
        /\ lastCall.storedLevel = ((lastCall.P + lastCall.d) \div 100) + 1
        /\ lastCall.storedLevel >= 1
        /\ lastCall.newPoints = lastCall.storedPoints
        /\ lastCall.newLevel = lastCall.storedLevel

\* C12: awardPoints(a) followed by awardPoints(b) leaves the same points and
\* level as one awardPoints(a + b) from the same profile
AwardPointsAdditive ==
    lastCall.op = "awardPointsTwice" =>
        /\ lastCall.twoPoints = lastCall.onePoints
        /\ lastCall.twoLevel = lastCall.oneLevel

\* ----------------------------------------------------- streak properties
\* C13: no step lowers current_streak or longest_streak of the profile, and
\* none sets a current_streak above zero back to zero, days without
\* activity included
StreakNeverDecreases ==
    [][(profile.exists /\ profile'.exists) =>
          /\ profile'.current_streak >= profile.current_streak
          /\ profile'.longest_streak >= profile.longest_streak
          /\ (profile'.current_streak = 0 => profile.current_streak = 0)]_vars

\* day 1 passed without activity and the streak from the days before was
\* continued on day 2
WitnessStreakNeverDecreases ==
    /\ today = 2
    /\ streaks[1] = <<>>
    /\ Len(streaks[2]) = 1
    /\ profile.last_activity = 2
    /\ profile.current_streak = PriorStreak + 1
    /\ profile.longest_streak = PriorStreak + 1

\* ------------------------------------------------- evaluation properties
\* the achievements of a returned list
ListedIn(new) == {new[i] : i \in 1..Len(new)}

\* C14: in one evaluation pass an achievement without a row is awarded
\* exactly when the stat its requirement_type selects in the stats snapshot
\* is at least its requirement_value; a perfect_week achievement is never
\* awarded
AwardedIffRequirementMet ==
    (lastCall.op = "checkAndAwardAchievements" /\ ~lastCall.threw) =>
        \A a \in lastCall.unearned :
            LET ach == Catalog[a]
                awarded == a \in ListedIn(lastCall.new)
                st == lastCall.stats
            IN /\ ach.requirement_type = "total_recordings" =>
                     (awarded <=> st.totalRecordings >= ach.requirement_value)
               /\ ach.requirement_type = "streak" =>
                     (awarded <=> st.currentStreak >= ach.requirement_value)
               /\ ach.requirement_type = "points" =>
                     (awarded <=> st.points >= ach.requirement_value)
               /\ ach.requirement_type = "perfect_week" => ~awarded

\* a pass that awarded an achievement whose stat just reached the required
\* value, left one below its value unawarded, and skipped perfect_week
WitnessAwardedIffRequirementMet ==
    /\ lastCall.op = "checkAndAwardAchievements"
    /\ ~lastCall.threw
    /\ lastCall.unearned = AchIds
    /\ lastCall.stats.totalRecordings = 1
    /\ lastCall.stats.points < 50
    /\ lastCall.new = <<"first_recording">>

RECURSIVE SumOver(_, _)
\* the sum of a reward field over a list of achievements
SumOver(new, field) ==
    IF new = <<>> THEN 0
    ELSE (IF field = "points" THEN Catalog[Head(new)].points_reward
          ELSE Catalog[Head(new)].diamonds_reward) + SumOver(Tail(new), field)

\* C15: when checkAndAwardAchievements has returned the list L, the profile's
\* points have grown by the sum of points_reward over L, its diamonds by the
\* sum of diamonds_reward over L, and every achievement of L has a
\* user_achievements row
RewardsAddUp ==
    (lastCall.op = "checkAndAwardAchievements" /\ ~lastCall.threw) =>
        /\ lastCall.pointsAfter - lastCall.pointsBefore
               = SumOver(lastCall.new, "points")
        /\ lastCall.diamondsAfter - lastCall.diamondsBefore
               = SumOver(lastCall.new, "diamonds")
        /\ \A a \in ListedIn(lastCall.new) : lastCall.rowsAfter[a] >= 1

\* ------------------------------------------------- validation properties
\* C16: a save attempt with a blank title or a zero-byte recording file is
\* reported to the user as an error and changes nothing: no upload, no
\* audio_records row, no change of any table, and the captured recording is
\* kept
InvalidSaveRejected ==
    saveObs.attempt \in {"blank_title", "empty_file"} =>
        /\ saveObs.errorShown
        /\ ~saveObs.uploaded
        /\ ~saveObs.inserted
        /\ ~saveObs.dbChanged
        /\ saveObs.kept

\* ------------------------------------------------------ link properties
\* C17: every assignment whose status is completed or reviewed has exactly
\* one audio record whose assignment_id refers to it
OneLinkedRecord ==
    \A a \in AssignIds :
        assignments[a] \in {"completed", "reviewed"} =>
            Cardinality({r \in records : r.assignment_id = a}) = 1

\* --------------------------------------------------- playback properties
\* C18: at every moment at most one playback sound is loaded in the
\* recording-history screen, playAudio calls that overlap included
AtMostOneSoundLoaded ==
    Cardinality(player.sounds) <= 1

\* --------------------------------------------------- progress properties
\* C19: for a user without a profile row and without recordings,
\* getStudentProgress returns points 0, diamonds 0, currentStreak 0,
\* longestStreak 0, level 1, totalRecordings 0, nextLevelPoints 100 without
\* raising, whether or not the profile insert succeeds; when it succeeds
\* the created profile has points 0, diamonds 0, both streaks 0 and level 1
NewUserProgress ==
    (lastCall.op = "getStudentProgress" /\ ~lastCall.existed
        /\ lastCall.recordings = 0) =>
        /\ ~lastCall.threw
        /\ lastCall.ret =
             [points |-> 0, diamonds |-> 0, currentStreak |-> 0,
              longestStreak |-> 0, level |-> 1, totalRecordings |-> 0,
              nextLevelPoints |-> 100]
        /\ ~lastCall.createFailed =>
             /\ lastCall.profileAfter.exists
             /\ lastCall.profileAfter.points = 0
             /\ lastCall.profileAfter.diamonds = 0
             /\ lastCall.profileAfter.current_streak = 0
             /\ lastCall.profileAfter.longest_streak = 0
             /\ lastCall.profileAfter.level = 1
        /\ lastCall.createFailed => ~lastCall.profileAfter.exists

\* a first call for a new user whose profile insert failed
WitnessNewUserProgress ==
    /\ lastCall.op = "getStudentProgress"
    /\ ~lastCall.existed
    /\ lastCall.recordings = 0
    /\ lastCall.createFailed
    /\ lastCall.ret.nextLevelPoints = 100
    /\ ~profile.exists

\* C20: the nextLevelPoints returned by getStudentProgress is
\* (floor(points / 100) + 1) * 100 - points for the returned points, floored
\* at 0, hence between 1 and 100
NextLevelPointsFormula ==
    (lastCall.op = "getStudentProgress" /\ ~lastCall.threw) =>
        LET p == lastCall.ret.points IN
        /\ lastCall.ret.nextLevelPoints
               = Max(0, ((p \div 100) + 1) * 100 - p)
        /\ lastCall.ret.nextLevelPoints \in 1..100

\* ------------------------------------------- degraded and failed calls
\* C21: an awardPoints(d) call that cannot read the caller's profile does
\* not raise, returns newPoints = d and newLevel = floor(d / 100) + 1 (d
\* applied to a default profile with 0 points), and leaves every table as it
\* was
AwardPointsDefaultProfile ==
    (lastCall.op = "awardPoints" /\ ~lastCall.found) =>
        /\ ~lastCall.threw
        /\ lastCall.newPoints = lastCall.d
        /\ lastCall.newLevel = (lastCall.d \div 100) + 1
        /\ lastCall.tablesSame

\* C22: a rule operation called while no user is authenticated fails with an
\* error and changes no row and no stored object
NoUserNoEffect ==
    (lastCall.op = "rule" /\ ~lastCall.user) =>
        /\ lastCall.threw
        /\ ~lastCall.changed

\* --------------------------------------------------- one save's requests
\* how often a request appears in a save's log
Attempts(log, name) == Cardinality({i \in 1..Len(log) : log[i] = name})

\* the upload succeeded and the insert failed: the object stays, no row is
\* added, and the gamification tables are untouched
OrphanLeft ==
    (saveObs'.uploaded /\ ~saveObs'.inserted) =>
        /\ storage' = storage \cup {nextId}
        /\ records' = records
        /\ profile' = profile
        /\ streaks' = streaks
        /\ userAch' = userAch

\* C23: within one save each of upload, insert, award, streak and
\* achievement evaluation is attempted at most once, and an upload followed
\* by a failed insert leaves the object in storage, no row for it, and
\* points, streak and achievements unchanged
SaveCallsOnceOrphanLeft ==
    [][(saveObs'.ran /\ saveObs' # saveObs) =>
          /\ \A name \in {"upload", "insert", "award", "streak", "evaluate"} :
                 Attempts(saveObs'.log, name) <= 1
          /\ OrphanLeft]_vars

\* ------------------------------------------------------ recorder lifecycle
\* the lifecycle state the recorder's fields stand for
Phase(r) ==
    IF r.isSaving THEN "uploading"
    ELSE IF r.isRecording /\ r.isPaused THEN "paused"
    ELSE IF r.isRecording THEN "recording"
    ELSE IF r.uri THEN "stopped"
    ELSE "idle"

\* idle -> recording -> paused <-> recording -> stopped -> uploading ->
\* saved (the form is reset to idle), discard leading back to idle, and a
\* save that did not go through leaving the stopped recording
LifecycleSteps ==
    {<<"idle", "recording">>, <<"recording", "paused">>,
     <<"paused", "recording">>, <<"recording", "stopped">>,
     <<"paused", "stopped">>, <<"stopped", "uploading">>,
     <<"uploading", "idle">>, <<"uploading", "stopped">>,
     <<"stopped", "idle">>}

\* C24: every recorder transition follows the lifecycle; a save starts only
\* from a stopped recording with a local file; while a save is in progress
\* no discard or new recording changes the recorder state
RecorderLifecycle ==
    [][/\ Phase(rec') # Phase(rec) =>
             <<Phase(rec), Phase(rec')>> \in LifecycleSteps
       /\ (rec'.isSaving /\ ~rec.isSaving) => (rec.uri /\ ~rec.isRecording)
       /\ (rec.isSaving /\ rec'.isSaving) =>
             /\ rec'.isRecording = rec.isRecording
             /\ rec'.isPaused = rec.isPaused
             /\ rec'.uri = rec.uri
             /\ rec'.duration = rec.duration]_vars

\* -------------------------------------------------- overlapping streak calls
\* C25: when updateStreak calls of one user for one day interleave, the
\* day has at most one ledger entry and current_streak is at most 1 higher
\* than before the day's first call
StreakOncePerDayInterleaved ==
    /\ \A d \in Days : Len(streaks[d]) <= 1
    /\ (hist.calledToday /\ profile.exists) =>
           profile.current_streak <= hist.dayStartStreak + 1

\* ---------------------------------------------------------------- reviews
\* C26: after a successful reviewAssignment(assignmentId, rating, feedback,
\* quality) the assignment is reviewed, the audio record linked to it carries
\* parent_rating = rating, parent_feedback = feedback and reading_quality =
\* quality, and no other audio record has changed
ReviewAnnotatesLinked ==
    (lastCall.op = "reviewAssignment" /\ ~lastCall.threw) =>
        /\ lastCall.status = "reviewed"
        /\ \A r \in lastCall.recordsAfter :
              IF r.assignment_id = lastCall.assignmentId
              THEN /\ r.parent_rating = lastCall.rating
                   /\ r.parent_feedback = lastCall.feedback
                   /\ r.reading_quality = lastCall.quality
              ELSE r \in lastCall.recordsBefore

RECURSIVE RowTotalFrom(_, _)
RowTotalFrom(ua, i) ==
    IF i > Len(AchOrder) THEN 0
    ELSE ua[AchOrder[i]] + RowTotalFrom(ua, i + 1)

\* C28: the number of achievements a save announces in its success message
\* equals the number of user_achievements rows created during that save
AnnouncedEqualsCreated ==
    [][(saveObs'.ran /\ saveObs'.completed /\ saveObs' # saveObs) =>
          saveObs'.announced
              = RowTotalFrom(userAch', 1) - RowTotalFrom(userAch, 1)]_vars

\* ---------------------------------------------------- rows and their files
\* C29: after any sequence of saves and deletes, failed ones included, every
\* audio_records row has a file_path of an object present in storage
FilePathsStored ==
    \A r \in records : r.file_path \in storage

\* ------------------------------------------------------------ auth loading
\* C30: every signIn, signUp or signOut call that set loading to true is
\* eventually followed by loading being false, also when the service
\* returns without a user
LoadingEnds ==
    (auth.call # "none" /\ auth.loading) ~> ~auth.loading

====
